---- MODULE Spec2Model ----
(***************************************************************************)
(* tap-amazonads: the authenticator (auth.py), the request layer and the   *)
(* paginator (client.py) and the report poll loop (streams.py).            *)
(*                                                                         *)
(* Time is in seconds.  None is written NoneVal (-1) in integer fields and *)
(* a token is a positive integer, the ordinal of the exchange that issued  *)
(* it; 0 is the absent token (None).                                       *)
(***************************************************************************)
EXTENDS Integers, Sequences, FiniteSets, TLC

NoneVal == -1

\* ---------------------------------------------------------------- bounds
\* the auth specification lets the clock run up to MaxTime seconds
MaxTime == 4200
\* the auth specification performs at most MaxExchanges token exchanges
MaxExchanges == 2
\* page sizes 1..MaxPageSize, totalResults 0..MaxTotal, offsets up to MaxOffset
MaxPageSize == 3
MaxTotal == 9
MaxOffset == 12
\* the list specification starts at most MaxSyncs stream syncs
MaxSyncs == 2

\* ------------------------------------------------------ program constants
\* streams.py:145  (expiry - now).total_seconds() < 300
SafetyMargin == 300
\* streams.py:80
max_attempts == 200
\* streams.py:82
initial_wait == 360
\* streams.py:108
poll_wait == 60
\* client.py:167
max_tries == 7
\* client.py:168
backoff_factor == 3

\* lifetimes (expires_in) the identity endpoint may report
ExpiresInValues == {900, 3600}
\* durations by which the clock advances between two calls on the authenticator
TickValues == {300, 1500}
\* the required configuration keys (auth.py:30-35)
required_keys == {"refresh_token", "client_id", "client_secret", "profile_id"}
\* what the identity endpoint may answer to one exchange
ExchangeReplies == {"ok", "non200", "no_access_token", "no_expires_in"}

VARIABLES
    \* ---- the clock (seconds)
    now,
    \* ---- AmazonADsAuthenticator instance
    auth_pc,          \* "new" | "ready" | "init_raised"
    config_keys,      \* the keys present in the config given to __init__
    _access_token,    \* self._access_token (0 = None)
    _token_expiry,    \* self._token_expiry (NoneVal = None)
    exchanges,        \* number of POSTs made to the token endpoint
    auth_ret,         \* what the last call on the authenticator returned
    authenticator,    \* which `authenticator` property the stream class has
    \* ---- AmazonAdsPaginator instance
    _value, _page_size, pg_prev, pg_resp, pg_ret,
    \* ---- one call of AmazonADsStream._request
    rq_pc, rq_tries, rq_dispatches, rq_sleeps, rq_lastSleep,
    rq_code,          \* the current attempt's response (NoneVal = none yet)
    rq_outcome, rq_error, rq_result, rq_token, rq_retriable,
    rq_remaining,     \* lifetime left to the token at the last dispatch
    rq_authFailures,  \* token exchanges of this call that were refused
    rq_retriedBefore, \* retriable outcomes met by the earlier calls of the sync
    rq_headers,       \* the auth header names of the last dispatched request
    \* ---- one call of BaseReportStream.process_report
    rp_pc, attempt, rp_script, rp_fetches, rp_sleeps, rp_lastWait,
    rp_status, rp_downloads, rp_emitted, rp_error,
    \* ---- one sync of a list stream (RESTStream.request_records)
    ls_pc,            \* "request" | "done" | "raised"
    ls_stream,        \* the stream being synced
    ls_total,         \* the totalResults the server reports
    ls_requests,      \* the page requests dispatched so far, in order
    ls_error,
    ls_syncs,         \* the list stream syncs started so far in the run
    \* ---- one record on its way from extraction to the sink
    em_pc,            \* "extracted" | "emitted"
    em_stream,        \* the stream the record belongs to
    em_selected,      \* the stream's selected_properties
    em_row,           \* the property paths present in the extracted row
    em_emitted,       \* the top-level keys of the record handed to the sink
    \* ---- one run of the tap
    run_pc,           \* "discover" | "sync" | "finished" | "aborted"
    run_config,       \* the enable_* keys that are true in the config
    run_streams,      \* what discover_streams returned
    run_synced,       \* the streams synced to completion
    run_failed,       \* the stream whose sync raised ("none" = none)
    \* ---- what a report sync does around process_report
    region,           \* the config's region
    rp_created,       \* creation responses received that carry a reportId
    rp_hosts,         \* the API hosts the requests of the sync were sent to
    cr_pc,            \* CampaignReportStream.request_records: "sleep" | "status" | "left"
    cr_attempt,       \* its attempt counter
    cr_initial_wait,  \* its initial_wait
    cr_fetches,       \* the status fetches its own loop made
    cr_left           \* the status on which its loop ended ("budget" = ran out)

authVars == <<auth_pc, config_keys, _access_token, _token_expiry, exchanges, auth_ret,
              authenticator>>
pgVars == <<_value, _page_size, pg_prev, pg_resp, pg_ret>>
rqVars == <<rq_pc, rq_tries, rq_dispatches, rq_sleeps, rq_lastSleep, rq_code,
            rq_outcome, rq_error, rq_result, rq_token, rq_retriable,
            rq_remaining, rq_authFailures, rq_retriedBefore, rq_headers>>
rpVars == <<rp_pc, attempt, rp_script, rp_fetches, rp_sleeps, rp_lastWait,
            rp_status, rp_downloads, rp_emitted, rp_error>>
lsVars == <<ls_pc, ls_stream, ls_total, ls_requests, ls_error, ls_syncs>>
emVars == <<em_pc, em_stream, em_selected, em_row, em_emitted>>
runVars == <<run_pc, run_config, run_streams, run_synced, run_failed>>
entryVars == <<region, rp_created, rp_hosts, cr_pc, cr_attempt, cr_initial_wait,
               cr_fetches, cr_left>>
tapVars == <<emVars, runVars, entryVars>>
vars == <<now, authVars, pgVars, rqVars, rpVars, lsVars, tapVars>>

NoRet == [kind |-> "none", token |-> 0, remaining |-> 0]

\* ============================================================ auth.py
\* The authenticator's fields after refresh_access_token() has met `reply`
\* (expires_in = e): [token, expiry, raised].  Line 73 assigns the token
\* before line 74 reads expires_in.
refresh_access_token(tok, exp, n, t, reply, e) ==
    CASE reply = "non200" ->
            [token |-> tok, expiry |-> exp, raised |-> TRUE]
      [] reply = "no_access_token" ->
            [token |-> tok, expiry |-> exp, raised |-> TRUE]
      [] reply = "no_expires_in" ->
            [token |-> n + 1, expiry |-> exp, raised |-> TRUE]
      [] reply = "empty_access_token" ->
            [token |-> 0, expiry |-> t + e, raised |-> FALSE]
      [] OTHER ->
            [token |-> n + 1, expiry |-> t + e, raised |-> FALSE]

AuthIdle ==
    /\ UNCHANGED <<pgVars, rqVars, rpVars, lsVars, tapVars>>

AuthInit ==
    /\ now = 0
    /\ auth_pc = "new"
    /\ config_keys \in {required_keys} \cup {required_keys \ {k} : k \in required_keys}
    /\ _access_token = 0
    /\ _token_expiry = NoneVal
    /\ exchanges = 0
    /\ auth_ret = NoRet
    /\ authenticator = "cached"

\* (mutant) __init__ calling refresh_access_token before it validates the keys
Construct_exchange_first(reply, e) ==
    /\ auth_pc = "new"
    /\ LET r == refresh_access_token(_access_token, _token_expiry,
                                     exchanges, now, reply, e)
       IN  /\ _access_token' = r.token
           /\ _token_expiry' = r.expiry
           /\ exchanges' = exchanges + 1
           /\ auth_pc' = IF r.raised \/ ~(required_keys \subseteq config_keys)
                           THEN "init_raised" ELSE "ready"
    /\ auth_ret' = NoRet
    /\ UNCHANGED <<now, config_keys, authenticator>>
    /\ AuthIdle

\* AmazonADsAuthenticator.__init__
Construct(reply, e) ==
    /\ auth_pc = "new"
    /\ IF ~(required_keys \subseteq config_keys)
         THEN /\ auth_pc' = "init_raised"
              /\ UNCHANGED <<_access_token, _token_expiry, exchanges>>
         ELSE LET r == refresh_access_token(_access_token, _token_expiry,
                                            exchanges, now, reply, e)
              IN  /\ _access_token' = r.token
                  /\ _token_expiry' = r.expiry
                  /\ exchanges' = exchanges + 1
                  /\ auth_pc' = IF r.raised THEN "init_raised" ELSE "ready"
    /\ auth_ret' = NoRet
    /\ UNCHANGED <<now, config_keys, authenticator>>
    /\ AuthIdle

\* time passes between two calls
Tick(d) ==
    /\ auth_pc = "ready"
    /\ now + d <= MaxTime
    /\ now' = now + d
    /\ UNCHANGED authVars
    /\ AuthIdle

\* the access_token property: returns the stored token, whatever its expiry
access_token_get(tok) == tok

AccessToken ==
    /\ auth_pc = "ready"
    /\ auth_ret' = [kind |-> "token", token |-> access_token_get(_access_token),
                    remaining |-> _token_expiry - now]
    /\ UNCHANGED <<now, auth_pc, config_keys, _access_token, _token_expiry, exchanges,
                   authenticator>>
    /\ AuthIdle

\* get_auth_params, and get_auth_headers (second definition, which replaces the
\* first): refreshes only when the token is absent, by update_access_token(),
\* which calls self._make_oauth_request, an attribute the class does not have.
GetAuthHeaders ==
    /\ auth_pc = "ready"
    /\ auth_ret' = IF access_token_get(_access_token) = 0
                     THEN [kind |-> "raised", token |-> 0, remaining |-> 0]
                     ELSE [kind |-> "headers",
                           token |-> access_token_get(_access_token),
                           remaining |-> _token_expiry - now]
    /\ UNCHANGED <<now, auth_pc, config_keys, _access_token, _token_expiry, exchanges,
                   authenticator>>
    /\ AuthIdle

\* an explicit refresh_access_token() on the instance
RefreshAccessToken(reply, e) ==
    /\ auth_pc = "ready"
    /\ exchanges < MaxExchanges
    /\ LET r == refresh_access_token(_access_token, _token_expiry,
                                     exchanges, now, reply, e)
       IN  /\ _access_token' = r.token
           /\ _token_expiry' = r.expiry
           /\ auth_ret' = [kind |-> IF r.raised THEN "raised" ELSE "refreshed",
                           token |-> r.token, remaining |-> r.expiry - now]
    /\ exchanges' = exchanges + 1
    /\ UNCHANGED <<now, auth_pc, config_keys, authenticator>>
    /\ AuthIdle

\* BaseReportStream._refresh_token_if_needed: does the stored expiry call for
\* a refresh at time t
refresh_needed(exp, t) == exp - t < SafetyMargin

RefreshTokenIfNeeded(reply, e) ==
    /\ auth_pc = "ready"
    /\ exchanges < MaxExchanges
    /\ refresh_needed(_token_expiry, now)
    /\ LET r == refresh_access_token(_access_token, _token_expiry,
                                     exchanges, now, reply, e)
       IN  /\ _access_token' = r.token
           /\ _token_expiry' = r.expiry
           /\ auth_ret' = [kind |-> IF r.raised THEN "raised" ELSE "refreshed",
                           token |-> r.token, remaining |-> r.expiry - now]
    /\ exchanges' = exchanges + 1
    /\ UNCHANGED <<now, auth_pc, config_keys, authenticator>>
    /\ AuthIdle

PgQuiet ==
    /\ _value = 0 /\ _page_size = 1 /\ pg_prev = 0 /\ pg_resp = NoneVal /\ pg_ret = NoneVal

RqQuiet ==
    /\ rq_pc = "off" /\ rq_tries = 0 /\ rq_dispatches = 0 /\ rq_sleeps = 0
    /\ rq_lastSleep = 0 /\ rq_code = NoneVal /\ rq_outcome = "none" /\ rq_error = "none"
    /\ rq_result = 0 /\ rq_token = 0 /\ rq_retriable = 0
    /\ rq_remaining = NoneVal /\ rq_authFailures = 0 /\ rq_retriedBefore = 0
    /\ rq_headers = {}

RpQuiet ==
    /\ rp_pc = "off" /\ attempt = 0
    /\ rp_script = [kind |-> "none", at |-> 0, reason |-> "none", expires_in |-> 0]
    /\ rp_fetches = 0 /\ rp_sleeps = 0 /\ rp_lastWait = 0 /\ rp_status = "none"
    /\ rp_downloads = 0 /\ rp_emitted = 0 /\ rp_error = [kind |-> "none", detail |-> "none"]

LsQuiet ==
    /\ ls_pc = "off" /\ ls_stream = "none" /\ ls_total = 0 /\ ls_requests = <<>>
    /\ ls_error = "none" /\ ls_syncs = 0

EmQuiet ==
    /\ em_pc = "off" /\ em_stream = "none" /\ em_selected = {} /\ em_row = {}
    /\ em_emitted = {}

RunQuiet ==
    /\ run_pc = "off" /\ run_config = {} /\ run_streams = <<>> /\ run_synced = {}
    /\ run_failed = "none"

EntryQuiet ==
    /\ region = "NA" /\ rp_created = 0 /\ rp_hosts = {}
    /\ cr_pc = "off" /\ cr_attempt = 0 /\ cr_initial_wait = 0 /\ cr_fetches = 0
    /\ cr_left = "none"

TapQuiet == EmQuiet /\ RunQuiet /\ EntryQuiet

InitAuth == AuthInit /\ PgQuiet /\ RqQuiet /\ RpQuiet /\ LsQuiet /\ TapQuiet

NextAuth ==
    \/ \E reply \in ExchangeReplies, e \in ExpiresInValues : Construct(reply, e)
    \/ \E d \in TickValues : Tick(d)
    \/ AccessToken
    \/ GetAuthHeaders
    \/ \E reply \in ExchangeReplies, e \in ExpiresInValues : RefreshAccessToken(reply, e)
    \/ \E reply \in ExchangeReplies, e \in ExpiresInValues : RefreshTokenIfNeeded(reply, e)

SpecAuth == InitAuth /\ [][NextAuth]_vars

\* C1: every token handed out for an outbound request (access_token,
\* get_auth_params / get_auth_headers) has, at the moment of return, at least
\* the 300-second safety margin of lifetime left.
C1_ReturnedTokenHasMargin ==
    auth_ret.kind \in {"token", "headers"} => auth_ret.remaining >= SafetyMargin

\* C19: refresh_access_token replaces the stored token atomically: a failed
\* exchange leaves the stored token and the stored expiry both unchanged, a
\* successful one replaces both; a new token is never paired with the old
\* expiry.  (Stated of refreshes on a constructed authenticator.)
C19_RefreshIsAtomic ==
    [][(auth_pc = "ready" /\ exchanges' = exchanges + 1) =>
          \/ (_access_token' = _access_token /\ _token_expiry' = _token_expiry)
          \/ /\ _access_token' # _access_token
             /\ _token_expiry' - now' \in ExpiresInValues
             /\ auth_pc' = "ready"
             /\ auth_ret'.kind # "raised"]_vars

EmptyTokenReplies == ExchangeReplies \cup {"empty_access_token"}

InitAuthAbsent ==
    /\ now = 0 /\ auth_pc = "new" /\ config_keys = required_keys
    /\ _access_token = 0 /\ _token_expiry = NoneVal /\ exchanges = 0
    /\ auth_ret = NoRet /\ authenticator = "cached"
    /\ PgQuiet /\ RqQuiet /\ RpQuiet /\ LsQuiet /\ TapQuiet

NextAuthAbsent ==
    \/ \E reply \in EmptyTokenReplies, e \in ExpiresInValues : Construct(reply, e)
    \/ \E d \in TickValues : Tick(d)
    \/ AccessToken
    \/ GetAuthHeaders
    \/ \E reply \in EmptyTokenReplies, e \in ExpiresInValues : RefreshAccessToken(reply, e)

SpecAuthAbsent == InitAuthAbsent /\ [][NextAuthAbsent]_vars

\* C32: when the stored token is absent at the time auth headers are asked
\* for, get_auth_params / get_auth_headers makes one token exchange and
\* returns headers that carry the new token; it does not raise.
C32_AbsentTokenIsRefreshed ==
    [][(GetAuthHeaders /\ access_token_get(_access_token) = 0) =>
          /\ auth_ret'.kind = "headers"
          /\ auth_ret'.token # 0
          /\ exchanges' = exchanges + 1]_vars

\* ------------------------------------- AmazonADsNonReportAuthenticator
\* One read of the access_token property (lines 184-189) on an instance that
\* holds `tok` after n exchanges: [token, exchanged, ret].  With no token
\* the `or` of line 187 stops at its first operand and update_access_token
\* runs: requests.post may raise, raise_for_status() raises on a status
\* other than 200, line 203 raises KeyError without access_token; expires_in
\* is not read.  With a token the second operand is evaluated:
\* self._token_expired, which neither __init__ (it sets _token_expires_at)
\* nor the class defines.
non_report_access_token(tok, n, reply) ==
    CASE tok # 0 ->
            [token |-> tok, exchanged |-> FALSE, ret |-> "raised"]
      [] tok = 0 /\ reply \in {"transport", "non200", "no_access_token"} ->
            [token |-> 0, exchanged |-> TRUE, ret |-> "raised"]
      [] tok = 0 /\ reply = "empty_access_token" ->
            [token |-> 0, exchanged |-> TRUE, ret |-> "token"]
      [] OTHER ->
            [token |-> n + 1, exchanged |-> TRUE, ret |-> "token"]

\* what the token endpoint may do to the exchange of one read
NonReportReplies == EmptyTokenReplies \cup {"transport"}

\* a read of access_token on the instance
NonReportAccessToken(reply) ==
    /\ auth_pc = "ready"
    /\ authenticator = "non_report"
    /\ _access_token = 0 => exchanges < MaxExchanges
    /\ LET r == non_report_access_token(_access_token, exchanges, reply)
       IN  /\ _access_token' = r.token
           /\ exchanges' = IF r.exchanged THEN exchanges + 1 ELSE exchanges
           /\ auth_ret' = [kind |-> r.ret,
                           token |-> IF r.ret = "token" THEN r.token ELSE 0,
                           remaining |-> 0]
    /\ UNCHANGED <<now, auth_pc, config_keys, _token_expiry, authenticator>>
    /\ AuthIdle

\* __init__ (lines 172-176) stores the config and two None fields; the
\* config holds every key the exchange reads
InitNonReport ==
    /\ now = 0 /\ auth_pc = "ready"
    /\ config_keys = required_keys
    /\ _access_token = 0 /\ _token_expiry = NoneVal /\ exchanges = 0
    /\ auth_ret = NoRet /\ authenticator = "non_report"
    /\ PgQuiet /\ RqQuiet /\ RpQuiet /\ LsQuiet /\ TapQuiet

NextNonReport ==
    \/ \E reply \in NonReportReplies : NonReportAccessToken(reply)
    \/ \E d \in TickValues : Tick(d)

SpecNonReport == InitNonReport /\ [][NextNonReport]_vars

\* C33: on one instance, a read of access_token made while a token is
\* stored returns that token, does not raise and makes no token exchange.
C33_LaterReadsReturnStoredToken ==
    [][(\E reply \in NonReportReplies : NonReportAccessToken(reply))
          /\ _access_token # 0
          => /\ auth_ret'.kind = "token"
             /\ auth_ret'.token = _access_token
             /\ exchanges' = exchanges]_vars

\* ======================================================== client.py: paginator
\* A response body: NoneVal = no pagination block, EmptyBlock = an empty
\* block ({}), NoTotalBlock = a block with other keys but no totalResults,
\* T >= 0 = a block with totalResults T.
EmptyBlock == -2
NoTotalBlock == -3
PageResponses == {NoneVal, EmptyBlock, NoTotalBlock} \cup (0 .. MaxTotal)

\* data.get("pagination") is falsy: the key is absent or the block is empty
no_pagination(resp) == resp \in {NoneVal, EmptyBlock}

\* (mutant) the last-page test with > for >=
is_last_page_strict(value, page_size, total_results) == value + page_size > total_results

\* line 73: the test that ends pagination
is_last_page(value, page_size, total_results) == value + page_size >= total_results

\* line 72: data["pagination"].get("totalResults", 0)
total_results(resp) == IF resp = NoTotalBlock THEN 0 ELSE resp

\* (mutant) get_next that sets the cursor back to 0 on the last page
get_next_rewinding(value, page_size, resp) ==
    IF no_pagination(resp)
      THEN [ret |-> NoneVal, value |-> value]
      ELSE IF is_last_page(value, page_size, total_results(resp))
             THEN [ret |-> NoneVal, value |-> 0]
             ELSE [ret |-> value + page_size, value |-> value + page_size]

\* (mutant) get_next that steps the cursor before it looks for the block
get_next_stepping_first(value, page_size, resp) ==
    IF no_pagination(resp)
      THEN [ret |-> NoneVal, value |-> value + page_size]
      ELSE IF is_last_page(value, page_size, total_results(resp))
             THEN [ret |-> NoneVal, value |-> value + page_size]
             ELSE [ret |-> value + page_size, value |-> value + page_size]

\* AmazonAdsPaginator.get_next: [ret, value], ret = NoneVal for None
get_next(value, page_size, resp) ==
    IF no_pagination(resp)
      THEN [ret |-> NoneVal, value |-> value]
      ELSE IF is_last_page(value, page_size, total_results(resp))
             THEN [ret |-> NoneVal, value |-> value]
             ELSE [ret |-> value + page_size, value |-> value + page_size]

PgIdle == UNCHANGED <<now, authVars, rqVars, rpVars, lsVars, tapVars>>

\* AmazonAdsPaginator.__init__ via get_new_paginator: start_value 0
PgInit ==
    /\ _value = 0
    /\ _page_size \in 1 .. MaxPageSize
    /\ pg_prev = 0
    /\ pg_resp = NoneVal
    /\ pg_ret = NoneVal

GetNext(resp) ==
    /\ _value <= MaxOffset
    /\ LET r == get_next(_value, _page_size, resp)
       IN  /\ _value' = r.value
           /\ pg_ret' = r.ret
    /\ pg_prev' = _value
    /\ pg_resp' = resp
    /\ UNCHANGED _page_size
    /\ PgIdle

AuthQuiet ==
    /\ now = 0 /\ auth_pc = "ready" /\ config_keys = required_keys
    /\ _access_token = 1 /\ _token_expiry = 3600 /\ exchanges = 1 /\ auth_ret = NoRet
    /\ authenticator = "cached"

InitPaginator == PgInit /\ AuthQuiet /\ RqQuiet /\ RpQuiet /\ LsQuiet /\ TapQuiet

NextPaginator == \E resp \in PageResponses : GetNext(resp)

SpecPaginator == InitPaginator /\ [][NextPaginator]_vars

\* C10: with a pagination block in the response, get_next returns None when
\* totalResults <= offset + pageSize, and otherwise returns offset + pageSize
\* and advances the cursor to it.
C10_GetNextContract ==
    pg_resp >= 0 =>
        /\ pg_resp <= pg_prev + _page_size => (pg_ret = NoneVal /\ _value = pg_prev)
        /\ pg_resp > pg_prev + _page_size =>
               (pg_ret = pg_prev + _page_size /\ _value = pg_prev + _page_size)

C10_Witness ==
    /\ pg_resp > pg_prev + _page_size
    /\ pg_prev > 0
    /\ pg_ret = _value

\* C23: no call of get_next, on any response, lowers the cursor.
C23_OffsetNeverDecreases ==
    [][_value' >= _value]_vars

C23_Witness ==
    /\ pg_prev >= 2 * _page_size
    /\ _value = pg_prev
    /\ pg_resp >= 0 /\ pg_ret = NoneVal

\* C24: on a response without a pagination block, or with a block that has
\* no totalResults, get_next returns None and leaves the cursor where it was.
C24_NoPaginationBlock ==
    pg_resp \in {NoneVal, EmptyBlock, NoTotalBlock} =>
        (pg_ret = NoneVal /\ _value = pg_prev)

C24_Witness ==
    /\ pg_resp \in {EmptyBlock, NoTotalBlock}
    /\ pg_prev > 0
    /\ pg_ret = NoneVal /\ _value = pg_prev

\* ==================================================== client.py: _request
\* what one dispatch may meet: an HTTP status code, or no response at all
\* (requests raises a RequestException)
TransportFailure == 0
StatusCodes == 100 .. 599
Responses == StatusCodes \cup {TransportFailure}

\* (mutant) validate_response without the 401 branch and with the client-error
\* range starting above 401
validate_response_401_retriable(status_code) ==
    IF status_code = 429 THEN "retriable"
    ELSE IF status_code = 401 THEN "retriable"
    ELSE IF status_code >= 400 /\ status_code < 500 THEN "fatal"
    ELSE IF status_code >= 500 THEN "retriable"
    ELSE "ok"

\* (mutant) validate_response with > 500 for >= 500
validate_response_gt500(status_code) ==
    IF status_code = 429 THEN "retriable"
    ELSE IF status_code = 401 THEN "fatal"
    ELSE IF status_code >= 400 /\ status_code < 500 THEN "fatal"
    ELSE IF status_code > 500 THEN "retriable"
    ELSE "ok"

\* AmazonADsStream.validate_response: "retriable" = RetriableAPIError,
\* "fatal" = FatalAPIError, "ok" = returns without raising
validate_response(status_code) ==
    IF status_code = 429 THEN "retriable"
    ELSE IF status_code = 401 THEN "fatal"
    ELSE IF status_code >= 400 /\ status_code < 500 THEN "fatal"
    ELSE IF status_code >= 500 THEN "retriable"
    ELSE "ok"

\* (mutant) a retry budget one attempt short
give_up_early(tries) == tries >= max_tries - 1

\* (mutant) a retry budget one attempt long
give_up_late(tries) == tries = max_tries + 1

\* backoff.on_exception(max_tries=7): the attempt that just failed was the last
give_up(tries) == tries = max_tries

\* the exceptions the decorator retries (line 166)
retried(outcome) == outcome \in {"retriable", "transport"}

\* backoff.expo(factor=3) with full jitter: the sleep after the n-th failed
\* attempt lies in [0, 3 * 2^(n-1)]; its two ends are taken
BackoffSleeps(n) == {0, backoff_factor * 2 ^ (n - 1)}

\* the three `authenticator` properties of the stream classes:
\*   "cached"      one AmazonADsAuthenticator per stream, built on first use
\*                 (client.py:109, and CampaignReportStream's own cache)
\*   "per_access"  a new AmazonADsAuthenticator on every access
\*                 (SearchTermReportStream, streams.py:652)
\*   "non_report"  a new AmazonADsNonReportAuthenticator on every access
\*                 (TargetsStream, streams.py:430)
AuthenticatorKinds == {"cached", "per_access", "non_report"}

\* what the token endpoint may do to an exchange made during an attempt:
\* one of ExchangeReplies, or no answer at all (requests.post raises)
AttemptReplies(kind) ==
    IF kind = "cached" THEN {"ok"} ELSE ExchangeReplies \cup {"transport"}

AttemptLifetimes(kind) ==
    IF kind = "per_access" THEN ExpiresInValues ELSE {3600}

\* line 182, self.authenticator.get_auth_headers(), for each kind of
\* authenticator: the token and expiry held afterwards, whether the token
\* endpoint was called and whether it refused, and how the call ends:
\* "ok" (headers returned), "fatal" (an exception the decorator lets through)
\* or "retried" (a requests exception, which the decorator catches).
\*   cached:      no exchange; an absent token ends in update_access_token's
\*                AttributeError
\*   per_access:  __init__ runs refresh_access_token; a status other than 200
\*                raises Exception, a missing field KeyError
\*   non_report:  the new instance has no token, so access_token calls
\*                update_access_token; raise_for_status() raises HTTPError, a
\*                RequestException; expires_in is not read and no expiry kept
authenticator_get_auth_headers(kind, tok, exp, n, t, reply, e) ==
    CASE kind = "cached" ->
            [token |-> tok, expiry |-> exp, exchanged |-> FALSE, refused |-> FALSE,
             outcome |-> IF access_token_get(tok) = 0 THEN "fatal" ELSE "ok"]
      [] kind = "per_access" /\ reply = "transport" ->
            [token |-> 0, expiry |-> NoneVal, exchanged |-> TRUE, refused |-> FALSE,
             outcome |-> "retried"]
      [] kind = "per_access" /\ reply # "transport" ->
            LET r == refresh_access_token(0, NoneVal, n, t, reply, e)
            IN  [token |-> r.token, expiry |-> r.expiry, exchanged |-> TRUE,
                 refused |-> r.raised,
                 outcome |-> IF r.raised THEN "fatal" ELSE "ok"]
      [] kind = "non_report" /\ reply = "transport" ->
            [token |-> 0, expiry |-> NoneVal, exchanged |-> TRUE, refused |-> FALSE,
             outcome |-> "retried"]
      [] kind = "non_report" /\ reply = "non200" ->
            [token |-> 0, expiry |-> NoneVal, exchanged |-> TRUE, refused |-> TRUE,
             outcome |-> "retried"]
      [] kind = "non_report" /\ reply = "no_access_token" ->
            [token |-> 0, expiry |-> NoneVal, exchanged |-> TRUE, refused |-> TRUE,
             outcome |-> "fatal"]
      [] OTHER ->
            [token |-> n + 1, expiry |-> NoneVal, exchanged |-> TRUE, refused |-> FALSE,
             outcome |-> "ok"]

\* the headers get_auth_headers returns: auth.py:150-154 for
\* AmazonADsAuthenticator, auth.py:208-214 for the non-report one
auth_header_names(kind) ==
    IF kind = "non_report"
      THEN {"Amazon-Advertising-API-ClientId", "Amazon-Advertising-API-Scope",
            "Authorization", "Content-Type", "Accept"}
      ELSE {"Amazon-Advertising-API-ClientId", "Amazon-Advertising-API-Scope",
            "Authorization"}

\* (mutant) the bearer value built for the first dispatch and sent again
bearer_token_reused(stored, last_sent) ==
    IF last_sent # 0 THEN last_sent ELSE stored

\* "Authorization": f"Bearer {self.access_token}", evaluated by every
\* get_auth_headers call; last_sent is the token of the request before
bearer_token(stored, last_sent) == access_token_get(stored)

RqIdle == UNCHANGED <<pgVars, rpVars, lsVars, tapVars>>

RqInit ==
    /\ rq_pc = "attempt" /\ rq_tries = 0 /\ rq_dispatches = 0 /\ rq_sleeps = 0
    /\ rq_lastSleep = 0 /\ rq_code = NoneVal /\ rq_outcome = "none" /\ rq_error = "none"
    /\ rq_result = 0 /\ rq_token = 0 /\ rq_retriable = 0
    /\ rq_remaining = NoneVal /\ rq_authFailures = 0 /\ rq_retriedBefore = 0
    /\ rq_headers = {}

\* one attempt of the decorated _request: auth headers, dispatch,
\* validate_response (in RESTStream._request), then the decorator's decision
RequestAttempt(resp) ==
    /\ rq_pc = "attempt"
    /\ rq_tries' = rq_tries + 1
    /\ \E reply \in AttemptReplies(authenticator), e \in AttemptLifetimes(authenticator) :
         LET h == authenticator_get_auth_headers(authenticator, _access_token,
                                                 _token_expiry, exchanges, now, reply, e)
         IN  /\ _access_token' = h.token
             /\ _token_expiry' = h.expiry
             /\ exchanges' = IF h.exchanged THEN exchanges + 1 ELSE exchanges
             /\ rq_authFailures' = IF h.refused THEN rq_authFailures + 1
                                   ELSE rq_authFailures
             /\ IF h.outcome # "ok"
                  THEN \* get_auth_headers raises before anything is sent
                       /\ resp = 200
                       /\ rq_pc' = IF h.outcome = "retried" /\ ~give_up(rq_tries + 1)
                                     THEN "backoff"
                                     ELSE "raised"
                       /\ rq_error' = "auth"
                       /\ UNCHANGED <<rq_dispatches, rq_code, rq_outcome, rq_result,
                                      rq_token, rq_retriable, rq_remaining,
                                      rq_headers>>
                  ELSE LET outcome == IF resp = TransportFailure THEN "transport"
                                      ELSE validate_response(resp)
                       IN  /\ rq_dispatches' = rq_dispatches + 1
                           /\ rq_token' = bearer_token(h.token, rq_token)
                           /\ rq_headers' = auth_header_names(authenticator)
                           /\ rq_remaining' = IF h.expiry = NoneVal THEN NoneVal
                                              ELSE h.expiry - now
                           /\ rq_code' = resp
                           /\ rq_outcome' = outcome
                           /\ rq_retriable' = IF retried(outcome) THEN rq_retriable + 1
                                              ELSE rq_retriable
                           /\ rq_result' = IF outcome = "ok" THEN resp ELSE rq_result
                           /\ rq_error' = IF outcome = "ok" THEN rq_error ELSE outcome
                           /\ rq_pc' = IF outcome = "ok" THEN "returned"
                                       ELSE IF retried(outcome) /\ ~give_up(rq_tries + 1)
                                              THEN "backoff"
                                              ELSE "raised"
    /\ UNCHANGED <<now, auth_pc, config_keys, auth_ret, authenticator,
                   rq_sleeps, rq_lastSleep, rq_retriedBefore>>
    /\ RqIdle

\* the decorator's time.sleep between two attempts; the failed attempt's
\* response and exception are dropped
BackoffSleep(d) ==
    /\ rq_pc = "backoff"
    /\ rq_sleeps' = rq_sleeps + 1
    /\ rq_lastSleep' = d
    /\ now' = now + d
    /\ rq_pc' = "attempt"
    /\ rq_code' = NoneVal
    /\ rq_outcome' = "none"
    /\ rq_error' = "none"
    /\ UNCHANGED <<rq_tries, rq_dispatches, rq_result, rq_token, rq_retriable,
                   rq_remaining, rq_authFailures, rq_retriedBefore, rq_headers>>
    /\ UNCHANGED authVars
    /\ RqIdle

InitRequest == RqInit /\ AuthQuiet /\ PgQuiet /\ RpQuiet /\ LsQuiet /\ TapQuiet

NextRequest ==
    \/ \E resp \in Responses : RequestAttempt(resp)
    \/ rq_pc = "backoff" /\ \E d \in BackoffSleeps(rq_tries) : BackoffSleep(d)

SpecRequest == InitRequest /\ [][NextRequest]_vars

\* C4: k < 7 retriable outcomes followed by a non-error response: the call
\* returns that response (it has not been given up before, and the response is
\* handed back as the result).
C4_ReturnsAfterRetries ==
    /\ (rq_code >= 100 /\ rq_code < 400) => (rq_pc = "returned" /\ rq_result = rq_code)
    /\ (rq_pc = "raised" /\ rq_error \in {"retriable", "transport"}) => rq_retriable >= 7
    /\ rq_pc = "backoff" => rq_retriable < 7

C4_Witness ==
    rq_pc = "returned" /\ rq_retriable = 6 /\ rq_dispatches = 7 /\ rq_result = 200

\* C5: one call dispatches at most 7 requests; when 7 attempts ended in a
\* retriable outcome the call has raised the error of the last attempt.
C5_AtMostSevenDispatches ==
    /\ rq_dispatches <= 7
    /\ rq_retriable = 7 =>
          /\ rq_pc = "raised"
          /\ rq_code = TransportFailure => rq_error = "transport"
          /\ rq_code # TransportFailure => rq_error = "retriable"

C5_Witness ==
    rq_pc = "raised" /\ rq_retriable = 7 /\ rq_dispatches = 7 /\ rq_sleeps = 6

\* C6: a 401 response ends the call at once with a fatal error: no backoff
\* sleep follows it and no further request; as the first response it leaves
\* exactly one dispatch and no sleep.
C6_Unauthorized401IsFatal ==
    rq_code = 401 =>
        /\ rq_pc = "raised"
        /\ rq_error = "fatal"
        /\ rq_sleeps = rq_retriable
        /\ rq_retriable = 0 => (rq_dispatches = 1 /\ rq_sleeps = 0)

C6_Witness ==
    rq_code = 401 /\ rq_pc = "raised" /\ rq_dispatches = 1

\* C7: validate_response puts every status code in exactly one class: 429
\* retriable, 401 fatal, any other 4xx fatal, 500 and above retriable, below
\* 400 no error.
C7_Classification ==
    rq_code \in StatusCodes =>
        /\ rq_code = 429 => rq_outcome = "retriable"
        /\ rq_code = 401 => rq_outcome = "fatal"
        /\ (rq_code >= 400 /\ rq_code < 500 /\ rq_code \notin {401, 429}) =>
               rq_outcome = "fatal"
        /\ rq_code >= 500 => rq_outcome = "retriable"
        /\ rq_code < 400 => rq_outcome = "ok"

C7_Witness ==
    rq_code = 500 /\ rq_outcome = "retriable" /\ rq_pc = "backoff"

\* ------------------------------------- _request with each authenticator kind
\* the expiry of the stream's token when the call starts (now = 0): just
\* issued, or issued 3295 s earlier
StartExpiries == {3600, 305}

\* the responses on the boundaries of validate_response's classes
RetryResponses == {200, 401, 429, 503, TransportFailure}

InitRequestAuth ==
    /\ RqInit /\ PgQuiet /\ RpQuiet /\ LsQuiet /\ TapQuiet
    /\ now = 0 /\ auth_pc = "ready" /\ config_keys = required_keys
    /\ authenticator \in AuthenticatorKinds
    /\ _access_token = 1 /\ exchanges = 1 /\ auth_ret = NoRet
    /\ IF authenticator = "non_report" THEN _token_expiry = NoneVal
       ELSE _token_expiry \in StartExpiries

NextRequestAuth ==
    \/ \E resp \in RetryResponses : RequestAttempt(resp)
    \/ rq_pc = "backoff" /\ \E d \in BackoffSleeps(rq_tries) : BackoffSleep(d)

SpecRequestAuth == InitRequestAuth /\ [][NextRequestAuth]_vars

\* C14: a request dispatched after a backoff sleep carries a token that has
\* been re-validated: at dispatch it has at least the safety margin left.
C14_RetryRevalidatesToken ==
    (rq_sleeps > 0 /\ rq_code # NoneVal /\ rq_remaining # NoneVal) =>
        rq_remaining >= SafetyMargin

\* C17: a token exchange is made only when the stored token is absent or
\* within the safety margin of its expiry.
C17_ExchangeOnlyWhenNeeded ==
    [][exchanges' > exchanges =>
          (_access_token = 0 \/ refresh_needed(_token_expiry, now))]_vars

\* C18: a token exchange that is refused (status other than 200, or a
\* required field missing) ends the outbound request with the
\* authentication error: no backoff follows and no second exchange.
C18_FailedExchangeIsFatal ==
    rq_authFailures > 0 =>
        (rq_pc = "raised" /\ rq_error = "auth" /\ rq_authFailures = 1)

\* ================================================= streams.py: process_report
\* The remote job of one run: the status endpoint answers PENDING to the first
\* fetch and IN_PROGRESS afterwards, until fetch number `at`, from which on it
\* answers `kind`; a FAILED answer carries `reason`.  at = max_attempts + 1
\* is a job that stays unfinished for the whole poll budget.  expires_in is
\* the lifetime the identity endpoint reports in this run.
TerminalStatuses == {"COMPLETED", "FAILED", "CANCELLED"}
FailureReasons == {"INTERNAL_ERROR", "INVALID_CONFIGURATION"}
Scripts ==
    {[kind |-> k, at |-> a, reason |-> r, expires_in |-> e] :
        k \in TerminalStatuses, a \in 1 .. (max_attempts + 1),
        r \in FailureReasons \cup {"none"}, e \in ExpiresInValues}

\* the status the n-th fetch of the job gets
StatusAt(script, n) ==
    IF n >= script.at THEN script.kind
    ELSE IF n = 1 THEN "PENDING" ELSE "IN_PROGRESS"

\* (mutant) the same short wait before every status fetch
wait_time_uniform(a) == poll_wait

\* lines 82-88 and 108-111: the sleep before a status fetch
wait_time(a) == IF a = 0 THEN initial_wait ELSE poll_wait

\* (mutant) the status branch without the COMPLETED test on the first check
status_branch_first_unchecked(status, a) ==
    IF status = "COMPLETED" /\ a > 0 THEN "download"
    ELSE IF status = "FAILED" THEN "failed"
    ELSE "continue"

\* (mutant) the status branch with FAILED treated as still running
status_branch_failed_ignored(status, a) ==
    IF status = "COMPLETED" THEN "download" ELSE "continue"

\* lines 96-104 and 119-127: what a fetched status leads to
status_branch(status, a) ==
    IF status = "COMPLETED" THEN "download"
    ELSE IF status = "FAILED" THEN "failed"
    ELSE "continue"

\* (mutant) a poll loop that runs one attempt short
loop_continues_short(a) == a < max_attempts - 1

\* line 107: while attempt < max_attempts
loop_continues(a) == a < max_attempts

RpIdle == UNCHANGED <<pgVars, rqVars, lsVars, tapVars>>

NoError == [kind |-> "none", detail |-> "none"]

RpInit ==
    /\ rp_pc = "wait"
    /\ attempt = 0
    /\ rp_script \in {s \in Scripts : (s.kind = "FAILED") <=> (s.reason # "none")}
    /\ rp_fetches = 0 /\ rp_sleeps = 0 /\ rp_lastWait = 0 /\ rp_status = "none"
    /\ rp_downloads = 0 /\ rp_emitted = 0 /\ rp_error = NoError

\* the stream's authenticator, constructed when the report was created
RpAuthInit ==
    /\ now = 0 /\ auth_pc = "ready" /\ config_keys = required_keys
    /\ _access_token = 1 /\ _token_expiry = rp_script.expires_in
    /\ exchanges = 1 /\ auth_ret = NoRet
    /\ authenticator = "cached"

\* time.sleep(wait_time) at line 88 (first check) and line 111 (later checks)
Wait ==
    /\ rp_pc = "wait"
    /\ now' = now + wait_time(attempt)
    /\ rp_sleeps' = rp_sleeps + 1
    /\ rp_lastWait' = wait_time(attempt)
    /\ rp_pc' = "refresh"
    /\ UNCHANGED <<attempt, rp_script, rp_fetches, rp_status, rp_downloads,
                   rp_emitted, rp_error>>
    /\ UNCHANGED authVars
    /\ RpIdle

\* self._refresh_token_if_needed() at lines 91 and 114
RefreshBeforeStatus(reply) ==
    /\ rp_pc = "refresh"
    /\ IF refresh_needed(_token_expiry, now)
         THEN LET r == refresh_access_token(_access_token, _token_expiry, exchanges,
                                            now, reply, rp_script.expires_in)
              IN  /\ _access_token' = r.token
                  /\ _token_expiry' = r.expiry
                  /\ exchanges' = exchanges + 1
                  /\ rp_pc' = IF r.raised THEN "raised" ELSE "status"
                  /\ rp_error' = IF r.raised
                                   THEN [kind |-> "auth", detail |-> reply]
                                   ELSE rp_error
         ELSE /\ reply = "ok"
              /\ rp_pc' = "status"
              /\ UNCHANGED <<_access_token, _token_expiry, exchanges, rp_error>>
    /\ UNCHANGED <<now, auth_pc, config_keys, auth_ret, authenticator>>
    /\ UNCHANGED <<attempt, rp_script, rp_fetches, rp_sleeps, rp_lastWait, rp_status,
                   rp_downloads, rp_emitted>>
    /\ RpIdle

\* self.get_report_status(report_id) and the branch on its result, up to the
\* next sleep: lines 93-104, 116-127 and 129-131.  http = "error" is _request
\* raising (a fatal response, or the retry budget spent).
\* lines 93-106 and 116-129: what process_report does with the outcome of
\* get_report_status: `http` = "error" when _request raised, "ok" when it
\* returned the status document
StatusFetched(http) ==
    /\ rp_pc = "status"
    /\ IF http = "error"
         THEN /\ rp_pc' = "raised"
              /\ rp_error' = [kind |-> "http", detail |-> "none"]
              /\ UNCHANGED <<attempt, rp_fetches, rp_status>>
         ELSE LET st == StatusAt(rp_script, rp_fetches + 1)
                  br == status_branch(st, attempt)
              IN  /\ rp_fetches' = rp_fetches + 1
                  /\ rp_status' = st
                  /\ CASE br = "download" ->
                            /\ rp_pc' = "download"
                            /\ UNCHANGED <<attempt, rp_error>>
                       [] br = "failed" ->
                            /\ rp_pc' = "raised"
                            /\ rp_error' = [kind |-> "failed", detail |-> rp_script.reason]
                            /\ UNCHANGED attempt
                       [] OTHER ->
                            /\ attempt' = attempt + 1
                            /\ IF loop_continues(attempt + 1)
                                 THEN /\ rp_pc' = "wait"
                                      /\ UNCHANGED rp_error
                                 ELSE /\ rp_pc' = "raised"
                                      /\ rp_error' = [kind |-> "timeout", detail |-> st]
    /\ UNCHANGED <<rp_script, rp_sleeps, rp_lastWait, rp_downloads, rp_emitted>>

\* get_report_status as one step, its _request call reduced to its outcome
GetReportStatus(http) ==
    /\ StatusFetched(http)
    /\ UNCHANGED <<now, authVars>>
    /\ RpIdle

\* (mutant) a failed download is attempted once more before it is raised
after_download_second_try(result, downloads) ==
    IF result = "ok" THEN "returned"
    ELSE IF downloads < 2 THEN "download" ELSE "raised"

\* lines 53-73 and 98: where process_report stands after the download has
\* ended in `result`; `except Exception` logs and raises again
after_download(result, downloads) ==
    IF result = "ok" THEN "returned" ELSE "raised"

\* download_and_process_report(url): requests.get, raise_for_status, gunzip,
\* json.loads
DownloadAndProcessReport(result) ==
    /\ rp_pc = "download"
    /\ rp_downloads' = rp_downloads + 1
    /\ rp_pc' = after_download(result, rp_downloads + 1)
    /\ IF result = "ok"
         THEN /\ rp_emitted' = rp_emitted + 1
              /\ UNCHANGED rp_error
         ELSE /\ rp_error' = [kind |-> "download", detail |-> result]
              /\ UNCHANGED rp_emitted
    /\ UNCHANGED <<attempt, rp_script, rp_fetches, rp_sleeps, rp_lastWait, rp_status>>
    /\ UNCHANGED <<now, authVars>>
    /\ RpIdle

\* how one download may end: records, no response (requests.get raises), a
\* 5xx or 4xx status (raise_for_status), a body that is not gzip, or not JSON
DownloadResults ==
    {"ok", "network_error", "server_error", "http_error", "not_gzip", "not_json"}

InitReport == RpInit /\ RpAuthInit /\ PgQuiet /\ RqQuiet /\ LsQuiet /\ TapQuiet

NextReport ==
    \/ Wait
    \/ \E reply \in ExchangeReplies : RefreshBeforeStatus(reply)
    \/ \E http \in {"ok", "error"} : GetReportStatus(http)
    \/ \E result \in DownloadResults : DownloadAndProcessReport(result)

\* the poll loop is a blocking loop of one thread: it keeps running until
\* process_report returns or raises
SpecReport == InitReport /\ [][NextReport]_vars /\ WF_vars(NextReport)

RpDone == rp_pc \in {"returned", "raised"}

\* C2: non-terminal statuses on the first k-1 fetches and COMPLETED on the
\* k-th (1 <= k <= 200): exactly k status fetches are issued, the artifact is
\* downloaded exactly once and its records are returned exactly once; such a
\* job never runs into the poll timeout.
C2_CompletedOnKthFetch ==
    /\ rp_status = "COMPLETED" =>
          /\ rp_fetches = rp_script.at
          /\ rp_pc \in {"download", "returned", "raised"}
          /\ rp_error.kind \in {"none", "download"}
    /\ rp_pc = "returned" =>
          /\ rp_status = "COMPLETED"
          /\ rp_fetches = rp_script.at
          /\ rp_downloads = 1
          /\ rp_emitted = 1
    /\ rp_downloads <= 1
    /\ rp_emitted <= rp_downloads
    /\ (rp_error.kind = "timeout" /\ rp_script.kind = "COMPLETED") => rp_script.at > 200

C2_Witness ==
    rp_pc = "returned" /\ rp_fetches = 200 /\ rp_downloads = 1 /\ rp_emitted = 1

\* C3: a job that never becomes terminal gets exactly 200 status fetches, then
\* the timeout error carrying the last observed status, and no fetch or
\* download after it; process_report ends for every sequence of responses.
C3_TimeoutAfter200 ==
    /\ [](/\ rp_fetches <= 200
          /\ rp_error.kind = "timeout" =>
                /\ rp_pc = "raised"
                /\ rp_fetches = 200
                /\ rp_error.detail = rp_status
                /\ rp_downloads = 0
          /\ (rp_script.at > 200 /\ RpDone) =>
                rp_error.kind \in {"timeout", "http", "auth"})
    /\ <>RpDone

C3_Witness ==
    /\ rp_error = [kind |-> "timeout", detail |-> "IN_PROGRESS"]
    /\ rp_fetches = 200 /\ rp_sleeps = 200 /\ rp_script.at > 200

\* C8: a status fetch that returns FAILED makes process_report raise an error
\* carrying the job's failureReason, with no status fetch, sleep or download
\* after it.
C8_FailedIsFatal ==
    rp_status = "FAILED" =>
        /\ rp_pc = "raised"
        /\ rp_error = [kind |-> "failed", detail |-> rp_script.reason]
        /\ rp_fetches = rp_script.at
        /\ rp_sleeps = rp_fetches
        /\ rp_downloads = 0

C8_Witness ==
    /\ rp_status = "FAILED" /\ rp_fetches = 3
    /\ rp_error = [kind |-> "failed", detail |-> "INVALID_CONFIGURATION"]

\* C20: a failure of the download, of the decompression or of the parsing
\* ends process_report with that error: the artifact has been requested
\* once, nothing is emitted and no status fetch follows the one that
\* returned COMPLETED.
C20_DownloadFailureIsFatal ==
    rp_error.kind = "download" =>
        /\ rp_pc = "raised"
        /\ rp_downloads = 1
        /\ rp_emitted = 0
        /\ rp_fetches = rp_script.at
        /\ rp_status = "COMPLETED"

C20_Witness ==
    /\ rp_error = [kind |-> "download", detail |-> "not_gzip"]
    /\ rp_pc = "raised" /\ rp_fetches = 2 /\ rp_downloads = 1

\* C15: the artifact download has the retry policy of _request: a 5xx
\* status or a network error on it surfaces only when max_tries requests
\* have been made for the artifact.
C15_DownloadIsRetried ==
    (rp_error.kind = "download"
        /\ rp_error.detail \in {"server_error", "network_error"}) =>
            rp_downloads = max_tries

\* C9: CANCELLED is terminal: once a status fetch has returned CANCELLED the
\* poll loop has stopped and no further status fetch is issued for the job.
C9_CancelledIsTerminal ==
    rp_status = "CANCELLED" => (RpDone /\ rp_fetches = rp_script.at)

\* C26: every status fetch comes after a sleep made since the fetch before
\* it, of 360 seconds before the first fetch and of 60 seconds before every
\* later one, and the decision taken on it uses the status that this fetch
\* returned.
C26_SleepBeforeEveryFetch ==
    [][rp_fetches' # rp_fetches =>
          /\ rp_fetches' = rp_fetches + 1
          /\ rp_sleeps = rp_fetches + 1
          /\ rp_lastWait = (IF rp_fetches = 0 THEN initial_wait ELSE poll_wait)
          /\ rp_status' = StatusAt(rp_script, rp_fetches + 1)
          /\ rp_pc' = "download" <=> rp_status' = "COMPLETED"
          /\ rp_error'.kind = "failed" <=> rp_status' = "FAILED"
          /\ rp_pc' = "wait" =>
                 (rp_status' \notin {"COMPLETED", "FAILED"} /\ attempt' = attempt + 1)]_vars

C26_Witness ==
    /\ rp_fetches = 3 /\ rp_sleeps = 4 /\ rp_lastWait = poll_wait
    /\ rp_status = "IN_PROGRESS" /\ rp_pc = "refresh"

\* ================================ process_report over _request: the poll
\* The poll loop with each get_report_status running its _request call
\* attempt by attempt.  The jobs end (COMPLETED or FAILED) within MaxPollAt
\* status fetches, and at most MaxPollRetries retriable outcomes are met in
\* one run.
MaxPollAt == 3
MaxPollRetries == 8

\* (mutant) the decorator's try counter kept from one call to the next
tries_carried_over(tries) == tries

\* backoff.on_exception counts the tries of each call of the decorated
\* function in a local of that call
tries_at_call_start(tries) == 0

\* get_report_status, lines 28-46: builds the request and enters _request
BeginStatusRequest ==
    /\ rp_pc = "status"
    /\ rq_pc = "off"
    /\ rq_pc' = "attempt"
    /\ rq_tries' = tries_at_call_start(rq_tries)
    /\ rq_retriedBefore' = rq_retriedBefore + rq_retriable
    /\ rq_retriable' = 0
    /\ rq_dispatches' = 0 /\ rq_sleeps' = 0 /\ rq_lastSleep' = 0
    /\ rq_code' = NoneVal /\ rq_outcome' = "none" /\ rq_error' = "none"
    /\ rq_result' = 0 /\ rq_authFailures' = 0
    /\ UNCHANGED <<rq_token, rq_remaining, rq_headers>>
    /\ UNCHANGED <<now, authVars, pgVars, rpVars, lsVars, tapVars>>

\* get_report_status, lines 46-47, and the branch of process_report on it
EndStatusRequest ==
    /\ rq_pc \in {"returned", "raised"}
    /\ StatusFetched(IF rq_pc = "returned" THEN "ok" ELSE "error")
    /\ rq_pc' = "off"
    /\ UNCHANGED <<rq_tries, rq_dispatches, rq_sleeps, rq_lastSleep, rq_code,
                   rq_outcome, rq_error, rq_result, rq_token, rq_retriable,
                   rq_remaining, rq_authFailures, rq_retriedBefore, rq_headers>>
    /\ UNCHANGED <<now, authVars, pgVars, lsVars, tapVars>>

\* whether one more response of this kind fits the run's bound
WithinPollRetries(resp) ==
    (resp = TransportFailure \/ retried(validate_response(resp))) =>
        rq_retriedBefore + rq_retriable < MaxPollRetries

InitPoll ==
    /\ RpInit /\ RpAuthInit /\ PgQuiet /\ RqQuiet /\ LsQuiet /\ TapQuiet
    /\ rp_script.at <= MaxPollAt
    /\ rp_script.kind \in {"COMPLETED", "FAILED"}

NextPoll ==
    \/ Wait
    \/ \E reply \in ExchangeReplies : RefreshBeforeStatus(reply)
    \/ BeginStatusRequest
    \/ \E resp \in RetryResponses : WithinPollRetries(resp) /\ RequestAttempt(resp)
    \/ rq_pc = "backoff" /\ \E d \in BackoffSleeps(rq_tries) : BackoffSleep(d)
    \/ EndStatusRequest
    \/ \E result \in DownloadResults : DownloadAndProcessReport(result)

SpecPoll == InitPoll /\ [][NextPoll]_vars

\* C13: the token sent with a status request has at least 300 seconds of
\* lifetime left when the request is dispatched.
C13_StatusTokenHasMargin ==
    rq_remaining # NoneVal => rq_remaining >= SafetyMargin

\* C27: every request _request dispatches has the Authorization, client-id
\* and profile-scope headers, and its bearer token is the token the
\* authenticator holds at that moment; tokens being numbered in the order of
\* issue, no request carries an older token than the request before it.
C27_BearerIsCurrentToken ==
    [][rq_dispatches' = rq_dispatches + 1 =>
          /\ rq_token' # 0
          /\ rq_token' = _access_token'
          /\ rq_token' >= rq_token
          /\ {"Authorization", "Amazon-Advertising-API-ClientId",
              "Amazon-Advertising-API-Scope"} \subseteq rq_headers']_vars

C27_Witness ==
    /\ exchanges = 2 /\ _access_token = 2
    /\ rq_token = 2 /\ rq_dispatches = 2 /\ rp_fetches = 1
    /\ "Authorization" \in rq_headers

\* C16: every status fetch that returns counts as one poll attempt, however
\* many transport retries it took; a status fetch is given up only when it
\* met max_tries retriable outcomes itself, whatever the earlier fetches met.
C16_IndependentCounters ==
    /\ attempt = IF rp_status \in {"COMPLETED", "FAILED"} THEN rp_fetches - 1
                 ELSE rp_fetches
    /\ rp_sleeps \in {rp_fetches, rp_fetches + 1}
    /\ rq_tries <= max_tries
    /\ rq_pc = "backoff" => rq_retriable < max_tries
    /\ (rq_pc = "raised" /\ rq_error \in {"retriable", "transport"}) =>
           rq_retriable = max_tries
    /\ (rp_error.kind = "http" /\ rq_error \in {"retriable", "transport"}) =>
           rq_retriable = max_tries

C16_Witness ==
    /\ rp_pc = "returned" /\ rp_fetches = 2 /\ attempt = 1
    /\ rq_retriedBefore = 6 /\ rq_retriable = 2

\* =============================== get_records of a report stream: one sync
\* get_records sends the creation request through _request and hands the
\* response to process_report, which reads report_info["reportId"] before
\* its first sleep.
Regions == {"NA", "EU", "FE"}

\* AmazonADsStream.url_base
url_base(reg) ==
    IF reg = "EU" THEN "https://advertising-api-eu.amazon.com"
    ELSE IF reg = "FE" THEN "https://advertising-api-fe.amazon.com"
    ELSE "https://advertising-api.amazon.com"

\* the host in the URL get_report_status builds (streams.py:30)
status_host(reg) == "https://advertising-api.amazon.com"

\* what a creation response may hold
CreationBodies == {"report_id", "no_report_id"}

\* (mutant) get_records going on to the poll whatever the creation gave
after_creation_polls_anyway(request_pc, body) == "wait"

\* where the sync stands after the creation request: _request raised, or
\* returned a body without reportId (KeyError at line 79), or returned one
after_creation(request_pc, body) ==
    IF request_pc = "raised" THEN "raised"
    ELSE IF body = "no_report_id" THEN "raised"
    ELSE "wait"

EntryIdle == UNCHANGED <<pgVars, lsVars, emVars, runVars>>

\* get_records, lines 816-820, once the creation _request has ended
CreationDone(body) ==
    /\ rp_pc = "create"
    /\ rq_pc \in {"returned", "raised"}
    /\ rq_pc = "raised" => body = "no_report_id"
    /\ rq_pc' = "off"
    /\ rp_pc' = after_creation(rq_pc, body)
    /\ rp_error' = IF rq_pc = "raised" THEN [kind |-> "create", detail |-> rq_error]
                   ELSE IF body = "no_report_id"
                          THEN [kind |-> "create", detail |-> body]
                          ELSE rp_error
    /\ rp_created' = IF rq_pc = "returned" /\ body = "report_id"
                       THEN rp_created + 1 ELSE rp_created
    /\ rp_hosts' = IF rq_dispatches > 0 THEN rp_hosts \cup {url_base(region)}
                   ELSE rp_hosts
    /\ UNCHANGED <<attempt, rp_script, rp_fetches, rp_sleeps, rp_lastWait, rp_status,
                   rp_downloads, rp_emitted>>
    /\ UNCHANGED <<rq_tries, rq_dispatches, rq_sleeps, rq_lastSleep, rq_code,
                   rq_outcome, rq_error, rq_result, rq_token, rq_retriable,
                   rq_remaining, rq_authFailures, rq_retriedBefore, rq_headers>>
    /\ UNCHANGED <<region, cr_pc, cr_attempt, cr_initial_wait, cr_fetches, cr_left>>
    /\ UNCHANGED <<now, authVars>>
    /\ EntryIdle

\* get_report_status inside process_report, with the host it is sent to
SyncGetReportStatus(http) ==
    /\ StatusFetched(http)
    /\ rp_hosts' = rp_hosts \cup {status_host(region)}
    /\ UNCHANGED <<region, rp_created, cr_pc, cr_attempt, cr_initial_wait,
                   cr_fetches, cr_left>>
    /\ UNCHANGED <<now, authVars, rqVars>>
    /\ EntryIdle

InitReportSync ==
    /\ rp_pc = "create"
    /\ attempt = 0
    /\ rp_script \in {s \in Scripts : /\ (s.kind = "FAILED") <=> (s.reason # "none")
                                      /\ s.at <= MaxPollAt
                                      /\ s.kind \in {"COMPLETED", "FAILED"}}
    /\ RqInit /\ RpAuthInit /\ PgQuiet /\ LsQuiet /\ EmQuiet /\ RunQuiet
    /\ rp_fetches = 0 /\ rp_sleeps = 0 /\ rp_lastWait = 0 /\ rp_status = "none"
    /\ rp_downloads = 0 /\ rp_emitted = 0 /\ rp_error = NoError
    /\ region \in Regions
    /\ rp_created = 0 /\ rp_hosts = {}
    /\ cr_pc = "off" /\ cr_attempt = 0 /\ cr_initial_wait = 0 /\ cr_fetches = 0
    /\ cr_left = "none"

NextReportSync ==
    \/ \E resp \in RetryResponses : RequestAttempt(resp)
    \/ rq_pc = "backoff" /\ \E d \in BackoffSleeps(rq_tries) : BackoffSleep(d)
    \/ \E body \in CreationBodies : CreationDone(body)
    \/ Wait
    \/ \E reply \in ExchangeReplies : RefreshBeforeStatus(reply)
    \/ \E http \in {"ok", "error"} : SyncGetReportStatus(http)
    \/ \E result \in DownloadResults : DownloadAndProcessReport(result)

SpecReportSync == InitReportSync /\ [][NextReportSync]_vars

\* C29: a creation request that fails (a fatal response, the retry budget
\* spent, or a response without reportId) ends the sync with no poll sleep,
\* status fetch or download; sleeps, fetches and downloads happen only after
\* the one creation response that carries a reportId.
C29_PollOnlyAfterCreation ==
    /\ rp_error.kind = "create" =>
          /\ rp_pc = "raised"
          /\ rp_created = 0
          /\ rp_sleeps = 0 /\ rp_fetches = 0 /\ rp_downloads = 0
    /\ rp_pc = "create" => (rp_sleeps = 0 /\ rp_fetches = 0 /\ rp_downloads = 0)
    /\ (rp_sleeps > 0 \/ rp_fetches > 0 \/ rp_downloads > 0) => rp_created = 1
    /\ rp_created <= 1

C29_Witness ==
    /\ rp_error = [kind |-> "create", detail |-> "retriable"]
    /\ rq_dispatches = max_tries
    /\ rp_pc = "raised" /\ rp_sleeps = 0 /\ rp_fetches = 0

\* C30: every request of a report stream sync, the creation request and
\* every status fetch, is sent to the base host of the configured region.
C30_RequestsTargetRegionHost ==
    rp_hosts \subseteq {url_base(region)}

\* ===================== CampaignReportStream.request_records: its own loop
\* After the creation response the method polls in a loop of its own, with
\* waits that double, and then calls process_report whatever the loop saw.
\* streams.py:1405
campaign_max_attempts == 10
\* random.uniform(120, 300) at line 1384 and random.uniform(0, 5) at line
\* 1410: the two ends of each
CampaignInitialWaits == {120, 300}
CampaignJitters == {0, 5}

\* the jobs of this specification: terminal within MaxPollAt fetches, or on
\* the second fetch after the loop's budget, or never within both budgets
CampaignScripts ==
    {s \in Scripts :
        /\ (s.kind = "FAILED") <=> (s.reason # "none")
        /\ s.at \in (1 .. MaxPollAt) \cup {campaign_max_attempts + 2, max_attempts + 1}}

CrIdle == UNCHANGED <<pgVars, rqVars, lsVars, emVars, runVars>>

\* lines 1408-1414: time.sleep(initial_wait * 2 ** attempt + jitter)
CampaignSleep(jitter) ==
    /\ cr_pc = "sleep"
    /\ now' = now + cr_initial_wait * 2 ^ cr_attempt + jitter
    /\ cr_pc' = "status"
    /\ UNCHANGED <<region, rp_created, rp_hosts, cr_attempt, cr_initial_wait,
                   cr_fetches, cr_left>>
    /\ UNCHANGED <<authVars, rpVars>>
    /\ CrIdle

\* lines 1416-1428: get_report_status and the branch on it; both COMPLETED
\* and FAILED leave the loop by `break`, and a spent budget is logged
\* (lines 1427-1428); line 1430 then enters process_report
CampaignStatus(http) ==
    /\ cr_pc = "status"
    /\ IF http = "error"
         THEN /\ cr_pc' = "raised"
              /\ rp_pc' = "raised"
              /\ rp_error' = [kind |-> "http", detail |-> "none"]
              /\ UNCHANGED <<cr_attempt, cr_fetches, cr_left, rp_fetches, rp_status>>
         ELSE LET st == StatusAt(rp_script, rp_fetches + 1)
              IN  /\ rp_fetches' = rp_fetches + 1
                  /\ cr_fetches' = cr_fetches + 1
                  /\ rp_status' = st
                  /\ UNCHANGED rp_error
                  /\ IF st \in {"COMPLETED", "FAILED"}
                       THEN /\ cr_left' = st
                            /\ cr_pc' = "left"
                            /\ rp_pc' = "wait"
                            /\ UNCHANGED cr_attempt
                       ELSE /\ cr_attempt' = cr_attempt + 1
                            /\ IF cr_attempt + 1 < campaign_max_attempts
                                 THEN /\ cr_pc' = "sleep"
                                      /\ UNCHANGED <<cr_left, rp_pc>>
                                 ELSE /\ cr_left' = "budget"
                                      /\ cr_pc' = "left"
                                      /\ rp_pc' = "wait"
    /\ rp_hosts' = rp_hosts \cup {status_host(region)}
    /\ UNCHANGED <<region, rp_created, cr_initial_wait>>
    /\ UNCHANGED <<attempt, rp_script, rp_sleeps, rp_lastWait, rp_downloads, rp_emitted>>
    /\ UNCHANGED <<now, authVars>>
    /\ CrIdle

\* the state when the creation response has come back with a reportId; the
\* token was issued before the first sleep of the method
InitCampaignReport ==
    /\ cr_pc = "sleep" /\ cr_attempt = 0 /\ cr_fetches = 0 /\ cr_left = "none"
    /\ cr_initial_wait \in CampaignInitialWaits
    /\ region \in Regions /\ rp_created = 1 /\ rp_hosts = {url_base(region)}
    /\ rp_pc = "off" /\ attempt = 0
    /\ rp_script \in CampaignScripts
    /\ rp_fetches = 0 /\ rp_sleeps = 0 /\ rp_lastWait = 0 /\ rp_status = "none"
    /\ rp_downloads = 0 /\ rp_emitted = 0 /\ rp_error = NoError
    /\ now = cr_initial_wait /\ auth_pc = "ready" /\ config_keys = required_keys
    /\ _access_token = 1 /\ _token_expiry = rp_script.expires_in
    /\ exchanges = 1 /\ auth_ret = NoRet /\ authenticator = "cached"
    /\ PgQuiet /\ RqQuiet /\ LsQuiet /\ EmQuiet /\ RunQuiet

NextCampaignReport ==
    \/ \E jitter \in CampaignJitters : CampaignSleep(jitter)
    \/ \E http \in {"ok", "error"} : CampaignStatus(http)
    \/ Wait
    \/ \E reply \in ExchangeReplies : RefreshBeforeStatus(reply)
    \/ \E http \in {"ok", "error"} : GetReportStatus(http)
    \/ \E result \in DownloadResults : DownloadAndProcessReport(result)

SpecCampaignReport == InitCampaignReport /\ [][NextCampaignReport]_vars

\* C28: once the loop of request_records has seen FAILED, or has used up its
\* 10 attempts, the sync has failed with an error, and no sleep and no status
\* fetch follow.
C28_CampaignLoopFailuresAreFatal ==
    cr_left \in {"FAILED", "budget"} =>
        /\ rp_pc = "raised"
        /\ rp_sleeps = 0
        /\ rp_fetches = cr_fetches

\* ============================================ list streams: one stream sync
\* RESTStream.request_records drives the sync: while the paginator is not
\* finished it prepares a request with next_page_token = the paginator's
\* current value, sends it through _request, yields the records and calls
\* paginator.advance(response); a page without records ends the loop.
ListStreams == {"campaigns", "ad_groups", "targets", "ads"}

\* an empty JSON body {}: no startIndex and no count
NoBody == [startIndex |-> NoneVal, count |-> NoneVal]

\* get_request_body of each list stream (the last definition in each class)
get_request_body(stream, next_page_token, page_size) ==
    IF stream = "campaigns"
      THEN [startIndex |-> IF next_page_token # 0 THEN next_page_token ELSE 0,
            count |-> page_size]
      ELSE NoBody

\* the index range the server serves for a body: a body without startIndex
\* is served from index 0
ServedFrom(body) == IF body.startIndex = NoneVal THEN 0 ELSE body.startIndex

\* BaseAPIPaginator.advance, inherited by AmazonAdsPaginator: it calls
\* get_next, which has already stored the new offset in self._value when
\* advance compares its return value with self._value.
advance(value, page_size, resp) ==
    LET r == get_next(value, page_size, resp)
    IN  IF r.ret # NoneVal /\ r.ret # 0 /\ r.ret = r.value
          THEN [value |-> r.value, finished |-> FALSE, raised |-> TRUE]
          ELSE IF r.ret = NoneVal \/ r.ret = 0
                 THEN [value |-> r.value, finished |-> TRUE, raised |-> FALSE]
                 ELSE [value |-> r.ret, finished |-> FALSE, raised |-> FALSE]

LsIdle == UNCHANGED <<now, authVars, rqVars, rpVars, tapVars>>

LsInit ==
    /\ ls_pc = "request"
    /\ ls_stream \in ListStreams
    /\ ls_total \in 0 .. MaxTotal
    /\ ls_requests = <<>>
    /\ ls_error = "none"
    /\ ls_syncs = 1

\* one turn of the request loop; http = "error" is _request raising
PageRequest(http) ==
    /\ ls_pc = "request"
    /\ LET body == get_request_body(ls_stream, _value, _page_size)
           sent == [offset |-> _value, body |-> body]
           has_records == ServedFrom(body) < ls_total
           a == advance(_value, _page_size, ls_total)
       IN  /\ ls_requests' = Append(ls_requests, sent)
           /\ IF http = "error"
                THEN /\ ls_pc' = "raised"
                     /\ ls_error' = "http"
                     /\ UNCHANGED <<_value, pg_prev, pg_resp, pg_ret>>
                ELSE IF ~has_records
                  THEN /\ ls_pc' = "done"
                       /\ UNCHANGED <<ls_error, _value, pg_prev, pg_resp, pg_ret>>
                  ELSE /\ _value' = a.value
                       /\ pg_prev' = _value
                       /\ pg_resp' = ls_total
                       /\ pg_ret' = get_next(_value, _page_size, ls_total).ret
                       /\ ls_pc' = IF a.raised THEN "raised"
                                   ELSE IF a.finished THEN "done" ELSE "request"
                       /\ ls_error' = IF a.raised THEN "loop_detected" ELSE ls_error
    /\ UNCHANGED <<_page_size, ls_stream, ls_total, ls_syncs>>
    /\ LsIdle

\* (mutant) a paginator that starts where the previous one stood
new_paginator_value_kept(previous) == previous

\* get_new_paginator: AmazonAdsPaginator(page_size=self.page_size), whose
\* start_value defaults to 0; `previous` is the offset of the paginator of
\* the sync before, which the new one does not see
new_paginator_value(previous) == 0

\* request_records is entered again, for the same stream or another one,
\* after the previous sync has returned or raised: lines 118-124
StartSync(stream, total) ==
    /\ ls_pc \in {"done", "raised"}
    /\ ls_syncs < MaxSyncs
    /\ ls_syncs' = ls_syncs + 1
    /\ ls_pc' = "request"
    /\ ls_stream' = stream
    /\ ls_total' = total
    /\ ls_requests' = <<>>
    /\ ls_error' = "none"
    /\ _value' = new_paginator_value(_value)
    /\ UNCHANGED <<_page_size, pg_prev, pg_resp, pg_ret>>
    /\ LsIdle

InitList == LsInit /\ PgInit /\ AuthQuiet /\ RqQuiet /\ RpQuiet /\ TapQuiet

NextList ==
    \/ \E http \in {"ok", "error"} : PageRequest(http)
    \/ \E stream \in ListStreams, total \in 0 .. MaxTotal : StartSync(stream, total)

SpecList == InitList /\ [][NextList]_vars

\* ceil(T / p), and 1 for T = 0
PageCount(T, p) == IF T = 0 THEN 1 ELSE (T + p - 1) \div p

\* C11: against a constant totalResults = T with page size p, a list stream
\* sync makes exactly max(1, ceil(T/p)) page requests, with offsets 0, p,
\* 2p, ... in that order, and then stops without error.
C11_PagesOfAListSync ==
    (ls_pc \in {"done", "raised"} /\ ls_error # "http") =>
        /\ ls_pc = "done"
        /\ Len(ls_requests) = PageCount(ls_total, _page_size)
        /\ \A i \in 1 .. Len(ls_requests) :
               ls_requests[i].offset = (i - 1) * _page_size

\* C12: every page request of every list stream carries startIndex = the
\* paginator's current offset and count = the page size.
C12_StartIndexAndCount ==
    \A i \in 1 .. Len(ls_requests) :
        /\ ls_requests[i].body.startIndex = ls_requests[i].offset
        /\ ls_requests[i].body.count = _page_size

\* C25: a sync starts with the paginator at offset 0, whatever offset the
\* paginator of an earlier sync had reached: before its first request the
\* cursor is 0, and its first request is made at offset 0.
C25_FreshPaginatorPerSync ==
    /\ (ls_pc = "request" /\ ls_requests = <<>>) => _value = 0
    /\ ls_requests # <<>> => ls_requests[1].offset = 0

C25_Witness ==
    /\ ls_syncs = 2
    /\ pg_ret > 0
    /\ Len(ls_requests) = 1 /\ ls_requests[1].offset = 0

\* =================================== records: from extraction to the sink
ReportStreams ==
    {"search_term_reports", "advertised_product_reports",
     "purchased_product_reports", "gross_and_invalid_traffic_reports"}

\* the property paths of a row: two top-level values and one nested value
RowPaths == {"campaignId", "name", "budget.amount"}
\* the property paths a selection may name
SelectablePaths == RowPaths \cup {"budget"}

\* the top-level key a path lies under, and its last part
top_key(path) == IF path = "budget.amount" THEN "budget" ELSE path
last_part(path) == IF path = "budget.amount" THEN "amount" ELSE path

\* `prop in row` for a top-level property; for a dotted one, the walk
\* value = value.get(part, {}) ending in something other than {}
row_has(row, prop) ==
    prop \in row \/ (prop = "budget" /\ "budget.amount" \in row)

\* AmazonADsStream.post_process: the keys of the row it returns
post_process(row, selected_properties) ==
    IF selected_properties = {}
      THEN {top_key(p) : p \in row}
      ELSE {last_part(prop) : prop \in {q \in selected_properties : row_has(row, q)}}

\* get_records: RESTStream.get_records, which the list streams inherit, calls
\* post_process on every row of request_records; the report streams define
\* their own get_records, which returns the rows of process_report as they are
get_records(stream, row, selected_properties) ==
    IF stream \in ReportStreams
      THEN {top_key(p) : p \in row}
      ELSE post_process(row, selected_properties)

EmIdle == UNCHANGED <<now, authVars, pgVars, rqVars, rpVars, lsVars, runVars, entryVars>>

\* a row extracted for a stream whose selected_properties discover_streams
\* has set from the "select" entries that start with the stream's name
EmInit ==
    /\ em_pc = "extracted"
    /\ em_stream \in ListStreams \cup ReportStreams
    /\ em_selected \in SUBSET SelectablePaths
    /\ em_row \in (SUBSET RowPaths) \ {{}}
    /\ em_emitted = {}

EmitRecord ==
    /\ em_pc = "extracted"
    /\ em_pc' = "emitted"
    /\ em_emitted' = get_records(em_stream, em_row, em_selected)
    /\ UNCHANGED <<em_stream, em_selected, em_row>>
    /\ EmIdle

InitEmit ==
    /\ EmInit /\ AuthQuiet /\ PgQuiet /\ RqQuiet /\ RpQuiet /\ LsQuiet /\ RunQuiet
    /\ EntryQuiet

NextEmit == EmitRecord

SpecEmit == InitEmit /\ [][NextEmit]_vars

\* C21: with a field selection configured for its stream, a record handed to
\* the sink has no field outside the selection.
C21_EmittedWithinSelection ==
    (em_pc = "emitted" /\ em_selected # {}) =>
        em_emitted \subseteq {last_part(prop) : prop \in em_selected}

\* ======================================================= tap.py: one run
\* STREAM_TYPES, by stream name, in the order of the list
STREAM_TYPES ==
    <<"campaigns", "ad_groups", "targets", "ads",
      "search_term_reports", "advertised_product_reports",
      "purchased_product_reports", "gross_and_invalid_traffic_reports">>

\* line 126: stream_type.__name__.lower().replace('stream', '')
stream_name(stream) ==
    CASE stream = "campaigns" -> "campaigns"
      [] stream = "ad_groups" -> "adgroups"
      [] stream = "targets" -> "targets"
      [] stream = "ads" -> "ads"
      [] stream = "search_term_reports" -> "searchtermreport"
      [] stream = "advertised_product_reports" -> "advertisedproductreport"
      [] stream = "purchased_product_reports" -> "purchasedproductreport"
      [] OTHER -> "grossandinvalidtrafficreport"

\* the key discover_streams looks up for a stream type (line 127)
enable_key(stream) == "enable_" \o stream_name(stream)

\* the enable flags config_jsonschema declares
DeclaredFlags ==
    {"enable_campaigns", "enable_adgroups", "enable_targets", "enable_ads",
     "enable_search_term_reports", "enable_advertised_product_reports",
     "enable_purchased_product_reports",
     "enable_gross_and_invalid_traffic_reports"}

\* the flag config_jsonschema declares for a stream (lines 62-110)
declared_flag(stream) ==
    CASE stream = "campaigns" -> "enable_campaigns"
      [] stream = "ad_groups" -> "enable_adgroups"
      [] stream = "targets" -> "enable_targets"
      [] stream = "ads" -> "enable_ads"
      [] stream = "search_term_reports" -> "enable_search_term_reports"
      [] stream = "advertised_product_reports" -> "enable_advertised_product_reports"
      [] stream = "purchased_product_reports" -> "enable_purchased_product_reports"
      [] OTHER -> "enable_gross_and_invalid_traffic_reports"

\* the enable_* keys a config may hold
EnableKeys == DeclaredFlags \cup {enable_key(STREAM_TYPES[i]) : i \in DOMAIN STREAM_TYPES}

\* discover_streams; config = the enable_* keys whose value is true.  No
\* stream class names a parent stream type, so the second loop adds nothing.
discover_streams(config) ==
    SelectSeq(STREAM_TYPES, LAMBDA stream : enable_key(stream) \in config)

\* Tap.streams keeps the discovered streams by name, and Tap.sync_all, which
\* TapAmazonADs inherits, syncs them in that order
SyncOrder ==
    <<"ad_groups", "ads", "advertised_product_reports", "campaigns",
      "gross_and_invalid_traffic_reports", "purchased_product_reports",
      "search_term_reports", "targets">>

Range(seq) == {seq[i] : i \in DOMAIN seq}

\* the streams of the run that have not been synced, in sync order
Pending ==
    SelectSeq(SyncOrder, LAMBDA stream :
        stream \in Range(run_streams) /\ stream \notin run_synced)

RunIdle == UNCHANGED <<now, authVars, pgVars, rqVars, rpVars, lsVars, emVars, entryVars>>

RunInit ==
    /\ run_pc = "discover"
    /\ run_config \in SUBSET EnableKeys
    /\ run_streams = <<>>
    /\ run_synced = {}
    /\ run_failed = "none"

Discover ==
    /\ run_pc = "discover"
    /\ run_streams' = discover_streams(run_config)
    /\ run_pc' = "sync"
    /\ UNCHANGED <<run_config, run_synced, run_failed>>
    /\ RunIdle

\* one turn of sync_all's loop: stream.sync() of the next stream; a fatal
\* error of the stream (e.g. the poll timeout of process_report) is raised
\* by sync() and leaves the loop and the run
SyncStream(outcome) ==
    /\ run_pc = "sync"
    /\ Pending # <<>>
    /\ IF outcome = "ok"
         THEN /\ run_synced' = run_synced \cup {Head(Pending)}
              /\ UNCHANGED <<run_pc, run_failed>>
         ELSE /\ run_failed' = Head(Pending)
              /\ run_pc' = "aborted"
              /\ UNCHANGED run_synced
    /\ UNCHANGED <<run_config, run_streams>>
    /\ RunIdle

\* the loop has gone through every stream
Finish ==
    /\ run_pc = "sync"
    /\ Pending = <<>>
    /\ run_pc' = "finished"
    /\ UNCHANGED <<run_config, run_streams, run_synced, run_failed>>
    /\ RunIdle

InitRun ==
    /\ RunInit /\ AuthQuiet /\ PgQuiet /\ RqQuiet /\ RpQuiet /\ LsQuiet /\ EmQuiet
    /\ EntryQuiet

NextRun ==
    \/ Discover
    \/ \E outcome \in {"ok", "fatal"} : SyncStream(outcome)
    \/ Finish

SpecRun == InitRun /\ [][NextRun]_vars

\* C22: when the run has ended, every enabled stream other than the one
\* that failed has been synced to completion.
C22_OtherStreamsStillSynced ==
    run_pc \in {"finished", "aborted"} =>
        \A stream \in Range(run_streams) :
            stream \in run_synced \/ stream = run_failed

\* C31: discover_streams returns a stream exactly when the flag declared for
\* it in the config schema is true, for every combination of flag values,
\* and no stream is returned twice.
C31_DiscoveredIffDeclaredFlag ==
    run_pc # "discover" =>
        /\ \A i \in DOMAIN STREAM_TYPES :
              (STREAM_TYPES[i] \in Range(run_streams))
                  <=> (declared_flag(STREAM_TYPES[i]) \in run_config)
        /\ Cardinality(Range(run_streams)) = Len(run_streams)

====
